---------------------------- MODULE Spec2Model ----------------------------
(***************************************************************************)
(* Model of the DMX bin construction and summary code of pint/utils.py:    *)
(*   dmxrange        the Bin entity                        (lines 528-547) *)
(*   dmx_ranges_old  the legacy segmenter                  (lines 550-722) *)
(*   dmx_ranges      the windowed segmenter                (lines 725-833) *)
(*   dmxparse        the summarizer                        (lines 878-1037)*)
(*                                                                         *)
(* Times are integers counting 0.001 day, so the pad of dmxrange is 1, the *)
(* rounding step of the legacy segmenter (0.1 day) is 100 and 15 days are  *)
(* 15000.  Frequencies are integers in MHz.  Sequences are 1-based here    *)
(* where the Python arrays are 0-based.                                    *)
(***************************************************************************)
EXTENDS Integers, Sequences, FiniteSets

VARIABLES
    op,         \* the function being run
    pc,         \* the position inside that function
    err,        \* the exception the call raised, "none" when it raised none
    toas,       \* the observations: a sequence of [mjd, freq]
    binwidth,   \* dmx_ranges: binwidth
    max_diff,   \* dmx_ranges_old: max_diff
    offset,     \* dmx_ranges_old: offset
    prevbinR2,  \* dmx_ranges: the cursor
    batches,    \* dmx_ranges: binidx of every iteration so far, with its fate
    DMXs,       \* the list of dmxrange objects
    loMJDs,     \* dmx_ranges_old: rounded unique low-band dates
    hiMJDs,     \* dmx_ranges_old: rounded unique high-band dates
    ii,         \* dmx_ranges_old: index of the low-band walk (1-based)
    good_his,   \* dmx_ranges_old: high-band dates claimed by a range
    bad_los,    \* dmx_ranges_old: low-band dates without a range
    todo,       \* dmx_ranges_old: bad_los not yet visited by the rescue loop
    saved_los,  \* dmx_ranges_old: bad_los appended to a range
    bad_his,    \* dmx_ranges_old: high-band dates claimed by no range
    mask,       \* the returned mask
    comp,       \* the returned DMX component: one record per DMX_%04d
    fitter,     \* dmxparse: the fitter (model parameters, covariance)
    save,       \* dmxparse: the save argument
    loc,        \* dmxparse: the local arrays
    dmx,        \* dmxparse: the returned dictionary
    dmxout,     \* dmxparse: the lines written to dmxparse.out
    first,      \* what an earlier call of dmxparse returned and left on disk
    printed     \* dmxstats: the lines printed so far

vars == <<op, pc, err, toas, binwidth, max_diff, offset, prevbinR2, batches,
          DMXs, loMJDs, hiMJDs, ii, good_his, bad_los, todo, saved_los,
          bad_his, mask, comp, fitter, save, loc, dmx, dmxout, first, printed>>

segVars == <<prevbinR2, batches, DMXs, loMJDs, hiMJDs, ii, good_his, bad_los,
             todo, saved_los, bad_his, mask, comp>>

parseVars == <<loc, dmx, dmxout>>

inputVars == <<op, toas, binwidth, max_diff, offset, fitter, save>>

otherVars == <<first, printed>>

-----------------------------------------------------------------------------
(* Bounds of the model *)

MaxObs == 4          \* observations in a stream
MaxTime == 2         \* dmx_ranges: times are 0..MaxTime (0.001 day each)
MaxBinwidth == 2     \* dmx_ranges: binwidth is 0..MaxBinwidth
MaxTick == 3         \* dmx_ranges_old: times are 0, 50, .. 50 * MaxTick
MaxBins == 3         \* dmxparse: DMX_ parameters of the model
MaxVal == 2          \* dmxparse: fitted values are 1..MaxVal
MaxLegacyObs == 5    \* dmx_ranges_old alone: at most this many observations

(* Program constants *)

Pad == 1             \* 0.001 * u.d of dmxrange.__init__
RoundStep == 100     \* MJDs.round(1): 0.1 day
DivideFreq == 1000   \* divide_freq = 1000.0 * u.MHz
DefaultBinwidth == 15000  \* binwidth = 15.0 * u.d
DefaultOffset == 10       \* offset = 0.01 * u.d

-----------------------------------------------------------------------------
(* Arithmetic and array helpers (Python and numpy built-ins) *)

Abs(x) == IF x < 0 THEN -x ELSE x

Min(S) == CHOOSE x \in S : \A y \in S : x <= y

Max(S) == CHOOSE x \in S : \A y \in S : x >= y

Range(s) == {s[k] : k \in DOMAIN s}

RECURSIVE SortedSeq(_)
\* sorted(S), np.unique(S): the members of S in ascending order
SortedSeq(S) == IF S = {} THEN <<>> ELSE <<Min(S)>> \o SortedSeq(S \ {Min(S)})

RECURSIVE SumSeq(_)
SumSeq(s) == IF s = <<>> THEN 0 ELSE s[1] + SumSeq(Tail(s))

\* array[boolean index]: the entries of s at the indices in I, in array order
Take(s, I) == LET idx == SortedSeq(I) IN [k \in 1..Len(idx) |-> s[idx[k]]]

\* numpy round(1) on a time: to the nearest 0.1 day, halves to the even tenth
Round1(t) ==
    LET q == t \div RoundStep
        r == t % RoundStep
    IN  IF 2 * r < RoundStep THEN q * RoundStep
        ELSE IF 2 * r > RoundStep THEN (q + 1) * RoundStep
        ELSE IF q % 2 = 0 THEN q * RoundStep ELSE (q + 1) * RoundStep

MJDsOf(t) == [k \in 1..Len(t) |-> t[k].mjd]

FreqsOf(t) == [k \in 1..Len(t) |-> t[k].freq]

-----------------------------------------------------------------------------
(* class dmxrange *)

\* dmxrange.__init__(lofreqs, hifreqs)
dmxrange(lofreqs, hifreqs) ==
    [los |-> lofreqs,
     his |-> hifreqs,
     min |-> Min(Range(lofreqs \o hifreqs)) - Pad,
     max |-> Max(Range(lofreqs \o hifreqs)) + Pad]

-----------------------------------------------------------------------------
(* The installer shared by both segmenters: one record per DMX_%04d *)

\* DMX_0001, DMXR1_0001 and DMXR2_0001 as dmx_class() makes them: the slot is
\* there before any range is installed, and its two range parameters hold no
\* value yet (ranged is FALSE)
DefaultSlot == [value |-> 0, frozen |-> TRUE, r1 |-> 0, r2 |-> 0, ranged |-> FALSE]

\* dmx_comp = dmx_class()
NewComponent == <<DefaultSlot>>

\* the parameters that the range DMX is given, in both segmenters
SlotOf(DMX, off) ==
    [value |-> 0, frozen |-> FALSE,
     r1 |-> DMX.min - off, r2 |-> DMX.max + off, ranged |-> TRUE]

\* an installer that adds a parameter for every range and leaves DMX_0001
\* alone: the variant against which the numbering of the slots is checked
InstallAppended(ranges, off) ==
    NewComponent \o [k \in 1..Len(ranges) |-> SlotOf(ranges[k], off)]

\* for ii, DMX in enumerate(DMXs): the first range sets the parameters of
\* DMX_0001, every later one adds DMX_%04d, DMXR1_%04d and DMXR2_%04d
Install(ranges, off) ==
    IF Len(ranges) = 0 THEN NewComponent
    ELSE [k \in 1..Len(ranges) |-> SlotOf(ranges[k], off)]

\* what dmx_comp.validate() can do: return (TRUE) or raise (FALSE)
ValidateOutcomes == BOOLEAN

\* a call that goes on to the return whatever validate() did: the variant
\* against which the propagation of its error is checked
AfterValidateSwallowed(ok) == "done"

\* dmx_comp.validate() is not guarded: when it raises, the call ends there
AfterValidate(ok) == IF ok THEN "done" ELSE "raised"


-----------------------------------------------------------------------------
(* dmx_ranges: the windowed segmenter *)

\* binidx with the cursor itself let in (MJDs >= prevbinR2): the variant
\* against which the disjointness of the batches is checked
BinIdxClosed(M, prev, bw) ==
    LET after == {k \in DOMAIN M : M[k] >= prev}
        startMJD == M[Min(after)]
    IN  {k \in DOMAIN M : M[k] >= prev /\ M[k] <= startMJD + bw}

\* binidx with the width counted from the cursor instead of from startMJD:
\* the variant against which the bins of scenario 1 are checked
BinIdxFromCursor(M, prev, bw) ==
    {k \in DOMAIN M : M[k] > prev /\ M[k] <= prev + bw}

\* binidx with a window one pad too wide: the variant against which the span
\* of a batch is checked
BinIdxWide(M, prev, bw) ==
    LET after == {k \in DOMAIN M : M[k] > prev}
        startMJD == M[Min(after)]
    IN  {k \in DOMAIN M : M[k] > prev /\ M[k] <= startMJD + bw + Pad}

\* binidx of one iteration, for MJDs M, cursor prev and width bw; startMJD is
\* the first entry, in array order, after the cursor
BinIdx(M, prev, bw) ==
    LET after == {k \in DOMAIN M : M[k] > prev}
        startMJD == M[Min(after)]
    IN  {k \in DOMAIN M : M[k] > prev /\ M[k] <= startMJD + bw}

\* a cursor moved to the first date of the batch only: the variant against
\* which the move of the cursor to the end of the batch is checked
NextCursorFirst(binMJDs) == Min(Range(binMJDs))

\* prevbinR2 = binMJDs.max()
NextCursor(binMJDs) == Max(Range(binMJDs))

\* the test "this is a good bin" on the frequencies of a batch
GoodBin(binfreqs) ==
    /\ \E k \in DOMAIN binfreqs : binfreqs[k] < DivideFreq
    /\ \E k \in DOMAIN binfreqs : binfreqs[k] > DivideFreq

\* the mask of dmx_ranges: inclusive bounds on DMX.min, DMX.max
WindowMask(M, ranges) ==
    [k \in DOMAIN M |->
        \E j \in DOMAIN ranges : M[k] >= ranges[j].min /\ M[k] <= ranges[j].max]

\* prevbinR2 = MJDs[0] - 0.001 * u.d ; MJDs[0] of an empty array is an IndexError
WindowInit ==
    /\ op = "dmx_ranges" /\ pc = "w_init"
    /\ IF Len(toas) = 0
         THEN /\ err' = "IndexError"
              /\ pc' = "raised"
              /\ UNCHANGED prevbinR2
         ELSE /\ prevbinR2' = toas[1].mjd - Pad
              /\ pc' = "w_loop"
              /\ UNCHANGED err
    /\ UNCHANGED <<batches, DMXs, loMJDs, hiMJDs, ii, good_his, bad_los, todo,
                   saved_los, bad_his, mask, comp>>
    /\ UNCHANGED <<inputVars, parseVars>>
    /\ UNCHANGED otherVars

\* one iteration of the while loop that forms a batch
WindowStep ==
    /\ op = "dmx_ranges" /\ pc = "w_loop"
    /\ \E k \in DOMAIN toas : toas[k].mjd > prevbinR2
    /\ LET M == MJDsOf(toas)
           binidx == BinIdx(M, prevbinR2, binwidth)
           binMJDs == Take(M, binidx)
           binfreqs == Take(FreqsOf(toas), binidx)
           lo == Take(binMJDs, {k \in DOMAIN binfreqs : binfreqs[k] < DivideFreq})
           hi == Take(binMJDs, {k \in DOMAIN binfreqs : binfreqs[k] >= DivideFreq})
       IN  /\ binidx # {}
           /\ IF GoodBin(binfreqs)
                THEN /\ DMXs' = Append(DMXs, dmxrange(lo, hi))
                     /\ batches' = Append(batches, [idx |-> binidx, good |-> TRUE])
                ELSE /\ DMXs' = DMXs
                     /\ batches' = Append(batches, [idx |-> binidx, good |-> FALSE])
           /\ prevbinR2' = NextCursor(binMJDs)
    /\ UNCHANGED <<pc, err, loMJDs, hiMJDs, ii, good_his, bad_los, todo,
                   saved_los, bad_his, mask, comp>>
    /\ UNCHANGED <<inputVars, parseVars>>
    /\ UNCHANGED otherVars

\* the two break statements of the while loop
WindowBreak ==
    /\ op = "dmx_ranges" /\ pc = "w_loop"
    /\ IF \E k \in DOMAIN toas : toas[k].mjd > prevbinR2
         THEN BinIdx(MJDsOf(toas), prevbinR2, binwidth) = {}
         ELSE TRUE
    /\ pc' = "w_mask"
    /\ UNCHANGED <<err, segVars, inputVars, parseVars>>
    /\ UNCHANGED otherVars

\* the mask, the component and its parameters
WindowFinish ==
    /\ op = "dmx_ranges" /\ pc = "w_mask"
    /\ mask' = WindowMask(MJDsOf(toas), DMXs)
    /\ comp' = Install(DMXs, 0)
    /\ pc' = "validate"
    /\ UNCHANGED <<err, prevbinR2, batches, DMXs, loMJDs, hiMJDs, ii, good_his,
                   bad_los, todo, saved_los, bad_his>>
    /\ UNCHANGED <<inputVars, parseVars>>
    /\ UNCHANGED otherVars

-----------------------------------------------------------------------------
(* dmx_ranges_old: the legacy segmenter *)

\* np.unique(MJDs[freqs < divide_freq].round(1))
LoDates(t) == SortedSeq({Round1(t[k].mjd) : k \in {j \in DOMAIN t : t[j].freq < DivideFreq}})

\* np.unique(MJDs[freqs > divide_freq].round(1))
HiDates(t) == SortedSeq({Round1(t[k].mjd) : k \in {j \in DOMAIN t : t[j].freq > DivideFreq}})

\* hi_close with a high date kept also when a neighbouring low date is just
\* as close (<= for <): the variant against which the tie-break is checked
HiCloseTies(los, his, i, md) ==
    LET near == {h \in Range(his) : Abs(h - los[i]) < md}
        prev == IF i > 1
                  THEN {h \in near : Abs(h - los[i]) <= Abs(h - los[i - 1])}
                  ELSE near
        next == IF i < Len(los)
                  THEN {h \in prev : Abs(h - los[i]) <= Abs(h - los[i + 1])}
                  ELSE prev
    IN  SortedSeq(next)

\* hi_close of the low date los[i]: the high dates within md of it that are
\* strictly closer to it than to the previous and to the next low date
HiClose(los, his, i, md) ==
    LET near == {h \in Range(his) : Abs(h - los[i]) < md}
        prev == IF i > 1
                  THEN {h \in near : Abs(h - los[i]) < Abs(h - los[i - 1])}
                  ELSE near
        next == IF i < Len(los)
                  THEN {h \in prev : Abs(h - los[i]) < Abs(h - los[i + 1])}
                  ELSE prev
    IN  SortedSeq(next)

\* "if len(hi_close)" with the test left out: the variant against which the
\* presence of both bands in every range is checked
AddRangeAlways(hi_close) == TRUE

\* if len(hi_close):  # add a DMXrange
AddRange(hi_close) == Len(hi_close) > 0

RECURSIVE RescueScan(_, _, _, _, _, _)
\* the inner loop over enumerate(DMXs) from index k on: [absmindiff, ind]
RescueScan(bad_lo, ranges, md, k, absmindiff, ind) ==
    IF k > Len(ranges) THEN [absmindiff |-> absmindiff, ind |-> ind]
    ELSE LET dmin == Abs(bad_lo - ranges[k].min)
             dmax == Abs(bad_lo - ranges[k].max)
             mindiff == IF dmin < dmax THEN dmin ELSE dmax
         IN  IF dmin < md /\ dmax < md /\ mindiff < absmindiff
               THEN RescueScan(bad_lo, ranges, md, k + 1, mindiff, k)
               ELSE RescueScan(bad_lo, ranges, md, k + 1, absmindiff, ind)

\* the ranges to which the rescue may add bad_lo
Eligible(bad_lo, ranges, md) ==
    {k \in DOMAIN ranges :
        Abs(bad_lo - ranges[k].min) < md /\ Abs(bad_lo - ranges[k].max) < md}

\* a scan that keeps the last of the nearest ranges (mindiff <= absmindiff):
\* the variant against which the choice of the first on a tie is checked
RescueIndLast(bad_lo, ranges, md) ==
    LET el == Eligible(bad_lo, ranges, md)
        d(k) == Min({Abs(bad_lo - ranges[k].min), Abs(bad_lo - ranges[k].max)})
    IN  IF el = {} THEN [absmindiff |-> 2 * md, ind |-> 1]
        ELSE LET best == {k \in el : \A j \in el : d(k) <= d(j)}
             IN  [absmindiff |-> d(Max(best)), ind |-> Max(best)]

\* a scan that stops at the first range it may add to: the variant against
\* which the order of the ranges after the rescue is checked
RescueIndFirstEligible(bad_lo, ranges, md) ==
    LET el == Eligible(bad_lo, ranges, md)
    IN  IF el = {} THEN [absmindiff |-> 2 * md, ind |-> 1]
        ELSE [absmindiff |-> Min({Abs(bad_lo - ranges[Min(el)].min),
                                  Abs(bad_lo - ranges[Min(el)].max)}),
              ind |-> Min(el)]

\* absmindiff = 2 * max_diff ; ind = 0 (here 1) ; the scan of all ranges
RescueInd(bad_lo, ranges, md) == RescueScan(bad_lo, ranges, md, 1, 2 * md, 1)

\* a rescue that appends the low date and leaves min and max as they were:
\* the variant against which the effect of the order of rescues is checked
RescuedSameExtent(range, bad_lo) ==
    [los |-> Append(range.los, bad_lo), his |-> range.his,
     min |-> range.min, max |-> range.max]

\* DMXs[ind].los.append(bad_lo) and the update of min and max (no pad here)
Rescued(range, bad_lo) ==
    LET los == Append(range.los, bad_lo)
    IN  [los |-> los,
         his |-> range.his,
         min |-> Min(Range(los \o range.his)),
         max |-> Max(Range(los \o range.his))]

\* the mask of dmx_ranges_old: exclusive bounds on DMX.min - offset, DMX.max + offset
LegacyMask(M, ranges, off) ==
    [k \in DOMAIN M |->
        \E j \in DOMAIN ranges :
            M[k] > ranges[j].min - off /\ M[k] < ranges[j].max + off]

\* loMJDs, hiMJDs and the empty lists before the walk
LegacySplit ==
    /\ op = "dmx_ranges_old" /\ pc = "o_split"
    /\ loMJDs' = LoDates(toas)
    /\ hiMJDs' = HiDates(toas)
    /\ ii' = 1
    /\ pc' = "o_pair"
    /\ UNCHANGED <<err, prevbinR2, batches, DMXs, good_his, bad_los, todo,
                   saved_los, bad_his, mask, comp>>
    /\ UNCHANGED <<inputVars, parseVars>>
    /\ UNCHANGED otherVars

\* one iteration of "for ii, loMJD in enumerate(loMJDs)"
LegacyPair ==
    /\ op = "dmx_ranges_old" /\ pc = "o_pair"
    /\ ii <= Len(loMJDs)
    /\ LET hi_close == HiClose(loMJDs, hiMJDs, ii, max_diff)
       IN  IF AddRange(hi_close)
             THEN /\ DMXs' = Append(DMXs, dmxrange(<<loMJDs[ii]>>, hi_close))
                  /\ good_his' = good_his \cup Range(hi_close)
                  /\ UNCHANGED bad_los
             ELSE /\ bad_los' = bad_los \cup {loMJDs[ii]}
                  /\ UNCHANGED <<DMXs, good_his>>
    /\ ii' = ii + 1
    /\ UNCHANGED <<pc, err, prevbinR2, batches, loMJDs, hiMJDs, todo, saved_los,
                   bad_his, mask, comp>>
    /\ UNCHANGED <<inputVars, parseVars>>
    /\ UNCHANGED otherVars

\* the walk is over: bad_los = set(bad_los) ; saved_los = []
LegacyStartRescue ==
    /\ op = "dmx_ranges_old" /\ pc = "o_pair"
    /\ ii > Len(loMJDs)
    /\ todo' = bad_los
    /\ pc' = "o_rescue"
    /\ UNCHANGED <<err, prevbinR2, batches, DMXs, loMJDs, hiMJDs, ii, good_his,
                   bad_los, saved_los, bad_his, mask, comp>>
    /\ UNCHANGED <<inputVars, parseVars>>
    /\ UNCHANGED otherVars

\* one iteration of "for bad_lo in bad_los": a Python set is walked in an
\* order the program does not fix, so any date not yet visited may come next
LegacyRescue ==
    /\ op = "dmx_ranges_old" /\ pc = "o_rescue"
    /\ \E bad_lo \in todo :
         LET r == RescueInd(bad_lo, DMXs, max_diff)
         IN  /\ IF r.absmindiff < max_diff
                  THEN /\ DMXs' = [DMXs EXCEPT ![r.ind] = Rescued(@, bad_lo)]
                       /\ saved_los' = saved_los \cup {bad_lo}
                  ELSE UNCHANGED <<DMXs, saved_los>>
             /\ todo' = todo \ {bad_lo}
    /\ UNCHANGED <<pc, err, prevbinR2, batches, loMJDs, hiMJDs, ii, good_his,
                   bad_los, bad_his, mask, comp>>
    /\ UNCHANGED <<inputVars, parseVars>>
    /\ UNCHANGED otherVars

\* bad_los, bad_his, the mask, the component and its parameters
LegacyFinish ==
    /\ op = "dmx_ranges_old" /\ pc = "o_rescue"
    /\ todo = {}
    /\ bad_los' = bad_los \ saved_los
    /\ bad_his' = Range(hiMJDs) \ good_his
    /\ mask' = LegacyMask(MJDsOf(toas), DMXs, offset)
    /\ comp' = Install(DMXs, offset)
    /\ pc' = "validate"
    /\ UNCHANGED <<err, prevbinR2, batches, DMXs, loMJDs, hiMJDs, ii, good_his,
                   todo, saved_los>>
    /\ UNCHANGED <<inputVars, parseVars>>
    /\ UNCHANGED otherVars

\* dmx_comp.validate() and return mask, dmx_comp: the last two statements of
\* both segmenters
Validate ==
    /\ op \in {"dmx_ranges", "dmx_ranges_old"} /\ pc = "validate"
    /\ \E ok \in ValidateOutcomes :
          /\ err' = IF ok THEN err ELSE "ValidationError"
          /\ pc' = AfterValidate(ok)
    /\ UNCHANGED <<segVars, inputVars, parseVars>>
    /\ UNCHANGED otherVars

-----------------------------------------------------------------------------
(* dmxparse: the summarizer *)

\* A rational number num/den, den > 0
Rat(n, d) == [num |-> n, den |-> d]

RatEq(a, b) == a.num * b.den = b.num * a.den

\* The uncertainties are square roots, which the integers do not have: an
\* uncertainty is held as its square, the rational sq.num / sq.den, and the
\* None that np.insert writes (a NaN) as a value of its own.
Unc(n, d) == [nan |-> FALSE, sq |-> Rat(n, d)]

NaN == [nan |-> TRUE, sq |-> Rat(0, 1)]

RECURSIVE SumFn(_, _)
\* the sum of f over the set S of arguments
SumFn(f, S) ==
    IF S = {} THEN 0
    ELSE LET x == CHOOSE y \in S : TRUE IN f[x] + SumFn(f, S \ {x})

\* "DMX_" + epoch, as the number of the bin: names sort as their numbers do
DMXKey(p) == p.key

\* get_label_matrix(labels): the covariance of the labels that the matrix
\* holds (the fit parameters), in the order of labels
GetLabelMatrix(f, labels) ==
    LET present == SelectSeq(labels, LAMBDA l : l \in f.covLabels)
    IN  [a \in 1..Len(present), b \in 1..Len(present) |-> f.cov[present[a], present[b]]]

\* cc.matrix.sum()
MatrixSum(cc, n) == SumFn(cc, (1..n) \X (1..n))

\* n * n times the diagonal entry i of cc itself, the variance that was not
\* corrected: the variant against which the correction is checked
Uncorrected(cc, n, i) == n * n * cc[i, i]

\* n * n times the diagonal entry i of np.dot(np.dot(m, cc), m) for
\* m = np.identity(n) - np.ones((n, n)) / n
Corrected(cc, n, i) ==
    LET m(a, b) == (IF a = b THEN n ELSE 0) - 1
        term == [ab \in (1..n) \X (1..n) |-> m(i, ab[1]) * cc[ab[1], ab[2]] * m(ab[2], i)]
    IN  SumFn(term, (1..n) \X (1..n))

\* np.where(mask_idxs)[0]: the 0-based indices of the True entries, ascending
Where(mask_idxs) == SortedSeq({k - 1 : k \in {j \in DOMAIN mask_idxs : mask_idxs[j]}})

\* np.insert(arr, indices, val) for ascending 0-based indices: each index names
\* a place of the array as it is before anything is inserted (the value goes
\* in front of arr[index]); an index beyond len(arr) is an IndexError
NpInsert(arr, indices, val) ==
    LET N == Len(arr)
        m == Len(indices)
        at == {indices[k] + k : k \in 1..m}
    IN  IF \E k \in 1..m : indices[k] > N
          THEN [ok |-> FALSE, out |-> <<>>]
          ELSE [ok |-> TRUE,
                out |-> [p \in 1..(N + m) |->
                           IF p \in at THEN val
                           ELSE arr[p - Cardinality({q \in at : q < p})]]]

\* a mean taken over the bins that were fit only: the variant against which
\* the mean over all bins is checked
MeanOfFit(l) ==
    LET fit == {k \in DOMAIN l.DMXs : ~ l.mask_idxs[k]}
    IN  Rat(SumFn(l.DMXs, fit), Cardinality(fit))

\* a mean of DMX_Errs taken over every bin, masked or not: the variant against
\* which the mean of the masked array is checked
MeanErrOfAll(l) ==
    LET sumErr == SumSeq(l.DMX_Errs)
    IN  Unc(sumErr * sumErr, Len(l.DMX_Errs) * Len(l.DMX_Errs))

\* np.mean(DMX_Errs): DMX_Errs is a masked array when a bin is frozen, and the
\* mean of a masked array is taken over the entries that are not masked
MeanErr(l) ==
    LET fit == {k \in DOMAIN l.mask_idxs : ~ l.mask_idxs[k]}
        sumErr == SumFn(l.DMX_Errs, fit)
    IN  IF fit = {} THEN NaN
        ELSE Unc(sumErr * sumErr, Cardinality(fit) * Cardinality(fit))

\* np.mean(DMXs) on the local arrays l
Mean(l) == Rat(SumSeq(l.DMXs), Len(l.DMXs))

\* DMXs - DMX_mean
MeanSub(values, mean) ==
    [k \in DOMAIN values |-> Rat(values[k] * mean.den - mean.num, mean.den)]

NoLoc == [DMX_keys |-> <<>>, DMXs |-> <<>>, mask_idxs |-> <<>>, DMX_Errs |-> <<>>,
          DMX_R1 |-> <<>>, DMX_R2 |-> <<>>, DMX_center_MJD |-> <<>>,
          DMX_mean |-> Rat(0, 1), DMX_mean_err |-> NaN, DMX_vErrs |-> <<>>]

NoDmx == [returned |-> FALSE, dmxs |-> <<>>, dmx_verrs |-> <<>>, dmxeps |-> <<>>,
          r1s |-> <<>>, r2s |-> <<>>, bins |-> <<>>, mean_dmx |-> Rat(0, 1),
          avg_dm_err |-> NaN]

\* a test that never finds the model empty: the variant against which the
\* RuntimeError of a model without bins is checked
NoDMXValuesMissed(f) == FALSE

\* not dmx_epochs: the model has no parameter with "DMX_" in its name
NoDMXValues(f) == Len(f.params) = 0

\* the DMX_ parameters are collected; a model without any is a RuntimeError
ParseCollect ==
    /\ op = "dmxparse" /\ pc = "p_start"
    /\ LET ps == fitter.params
       IN  IF NoDMXValues(fitter)
             THEN /\ err' = "RuntimeError"
                  /\ pc' = "raised"
                  /\ UNCHANGED loc
             ELSE /\ loc' = [loc EXCEPT
                        !.DMX_keys = [k \in DOMAIN ps |-> DMXKey(ps[k])],
                        !.DMXs = [k \in DOMAIN ps |-> ps[k].value],
                        !.mask_idxs = [k \in DOMAIN ps |-> ps[k].frozen],
                        !.DMX_Errs = [k \in DOMAIN ps |-> ps[k].unc],
                        !.DMX_R1 = [k \in DOMAIN ps |-> ps[k].r1],
                        !.DMX_R2 = [k \in DOMAIN ps |-> ps[k].r2],
                        !.DMX_center_MJD = [k \in DOMAIN ps |-> Rat(ps[k].r1 + ps[k].r2, 2)]]
                  /\ pc' = "p_errs"
                  /\ UNCHANGED err
    /\ UNCHANGED <<dmx, dmxout, segVars, inputVars>>
    /\ UNCHANGED otherVars

\* the branch with fitter.parameter_covariance_matrix
ParseCovariance ==
    /\ op = "dmxparse" /\ pc = "p_errs"
    /\ fitter.hasCov
    /\ LET cc == GetLabelMatrix(fitter, SortedSeq(Range(loc.DMX_keys)))
           frozen == {k \in DOMAIN loc.mask_idxs : loc.mask_idxs[k]}
           n == Len(loc.DMX_Errs) - Cardinality(frozen)
           verrs == [i \in 1..n |-> Unc(Corrected(cc, n, i), n * n)]
           ins == IF frozen # {}
                    THEN NpInsert(verrs, Where(loc.mask_idxs), NaN)
                    ELSE [ok |-> TRUE, out |-> verrs]
       IN  IF ins.ok
             THEN /\ loc' = [loc EXCEPT
                        !.DMX_mean = Mean(loc),
                        !.DMX_mean_err = IF n = 0 THEN NaN
                                         ELSE Unc(MatrixSum(cc, n), n * n),
                        !.DMX_vErrs = ins.out]
                  /\ pc' = "p_check"
                  /\ UNCHANGED err
             ELSE /\ err' = "IndexError"
                  /\ pc' = "raised"
                  /\ UNCHANGED loc
    /\ UNCHANGED <<dmx, dmxout, segVars, inputVars>>
    /\ UNCHANGED otherVars

\* the branch without a covariance matrix: the values of the model
ParseFallback ==
    /\ op = "dmxparse" /\ pc = "p_errs"
    /\ ~ fitter.hasCov
    /\ loc' = [loc EXCEPT
               !.DMX_mean = Mean(loc),
               !.DMX_mean_err = MeanErr(loc),
               !.DMX_vErrs = [k \in DOMAIN loc.DMX_Errs |->
                                Unc(loc.DMX_Errs[k] * loc.DMX_Errs[k], 1)]]
    /\ pc' = "p_check"
    /\ UNCHANGED <<err, dmx, dmxout, segVars, inputVars>>
    /\ UNCHANGED otherVars

\* one line of dmxparse.out per bin
OutLine(l, k) ==
    [ep |-> l.DMX_center_MJD[k], value |-> MeanSub(l.DMXs, l.DMX_mean)[k],
     var_err |-> l.DMX_vErrs[k], r1 |-> l.DMX_R1[k], r2 |-> l.DMX_R2[k],
     bin |-> l.DMX_keys[k]]

\* the check of the lengths, the file when save is set, and the dictionary
ParseReturn ==
    /\ op = "dmxparse" /\ pc = "p_check"
    /\ IF Len(loc.DMXs) # Len(loc.DMX_Errs) \/ Len(loc.DMXs) # Len(loc.DMX_vErrs)
         THEN /\ err' = "RuntimeError"
              /\ pc' = "raised"
              /\ UNCHANGED <<dmx, dmxout>>
         ELSE /\ dmxout' = IF save
                             THEN [written |-> TRUE,
                                   mean |-> loc.DMX_mean,
                                   mean_err |-> loc.DMX_mean_err,
                                   lines |-> [k \in DOMAIN loc.DMX_keys |-> OutLine(loc, k)]]
                             ELSE dmxout
              /\ dmx' = [returned |-> TRUE,
                         dmxs |-> MeanSub(loc.DMXs, loc.DMX_mean),
                         dmx_verrs |-> loc.DMX_vErrs,
                         dmxeps |-> loc.DMX_center_MJD,
                         r1s |-> loc.DMX_R1,
                         r2s |-> loc.DMX_R2,
                         bins |-> loc.DMX_keys,
                         mean_dmx |-> loc.DMX_mean,
                         avg_dm_err |-> loc.DMX_mean_err]
              /\ pc' = "done"
              /\ UNCHANGED err
    /\ UNCHANGED <<loc, segVars, inputVars>>
    /\ UNCHANGED otherVars

\* a function that writes the mean-subtracted values (times the number of
\* bins) back into the model: the variant against which the untouched fitter
\* is checked
FitterMeanSubtracted(f, l) ==
    [f EXCEPT !.params =
        [k \in DOMAIN f.params |->
            [f.params[k] EXCEPT !.value = @ * Len(l.DMXs) - SumSeq(l.DMXs)]]]

\* the fitter as a call of dmxparse leaves it: the function reads the model
\* with getattr and the covariance with get_label_matrix and assigns to
\* neither; mean_sub_DMXs is a new array
FitterAfter(f, l) == f

\* the call is over and dmxparse is called once more on the same fitter,
\* with the same save, in the same working directory
ParseAgain ==
    /\ op = "dmxparse" /\ pc \in {"done", "raised"}
    /\ ~ first.ran
    /\ first' = [ran |-> TRUE, dmx |-> dmx, out |-> dmxout, err |-> err]
    /\ fitter' = FitterAfter(fitter, loc)
    /\ pc' = "p_start"
    /\ err' = "none"
    /\ loc' = NoLoc
    /\ dmx' = NoDmx
    /\ UNCHANGED <<op, toas, binwidth, max_diff, offset, save>>
    /\ UNCHANGED <<dmxout, segVars, printed>>

-----------------------------------------------------------------------------
(* dmxstats: one printed line for each DMX bin of the model *)

\* hasattr(model, "DMX_{:04d}".format(i))
HasBin(f, i) == \E k \in DOMAIN f.params : f.params[k].key = i

\* getattr(model, "DMXR1_{:04d}".format(i)) and DMXR2 with it
BinOf(f, i) == f.params[CHOOSE k \in DOMAIN f.params : f.params[k].key = i]

\* mmask: mjds > DMXR1 and mjds < DMXR2
MMask(f, t, i) ==
    {k \in DOMAIN t : t[k].mjd > BinOf(f, i).r1 /\ t[k].mjd < BinOf(f, i).r2}

\* the line printed for bin i: NTOAS, MJDSpan and the two ends of FreqSpan,
\* all zero when no observation is in the bin
StatsLineOf(f, t, i) ==
    LET mmask == MMask(f, t, i)
        mjds_in_bin == {t[k].mjd : k \in mmask}
        freqs_in_bin == {t[k].freq : k \in mmask}
    IN  IF mmask # {}
          THEN [bin |-> i, ntoas |-> Cardinality(mmask),
                span |-> Max(mjds_in_bin) - Min(mjds_in_bin),
                fmin |-> Min(freqs_in_bin), fmax |-> Max(freqs_in_bin)]
          ELSE [bin |-> i, ntoas |-> 0, span |-> 0, fmin |-> 0, fmax |-> 0]

\* model = fitter.model ; mjds ; freqs ; ii = 1
StatsStart ==
    /\ op = "dmxstats" /\ pc = "s_start"
    /\ ii' = 1
    /\ pc' = "s_loop"
    /\ UNCHANGED <<err, prevbinR2, batches, DMXs, loMJDs, hiMJDs, good_his,
                   bad_los, todo, saved_los, bad_his, mask, comp>>
    /\ UNCHANGED <<inputVars, parseVars, otherVars>>

\* one iteration of the while loop: the line of bin ii, then ii += 1
StatsLine ==
    /\ op = "dmxstats" /\ pc = "s_loop"
    /\ HasBin(fitter, ii)
    /\ printed' = Append(printed, StatsLineOf(fitter, toas, ii))
    /\ ii' = ii + 1
    /\ UNCHANGED <<pc, err, prevbinR2, batches, DMXs, loMJDs, hiMJDs, good_his,
                   bad_los, todo, saved_los, bad_his, mask, comp>>
    /\ UNCHANGED <<inputVars, parseVars, first>>

\* the model has no DMX_ii: the loop ends and the function returns
StatsReturn ==
    /\ op = "dmxstats" /\ pc = "s_loop"
    /\ ~ HasBin(fitter, ii)
    /\ pc' = "done"
    /\ UNCHANGED <<err, segVars, inputVars, parseVars, otherVars>>

-----------------------------------------------------------------------------
(* The inputs *)

Freqs == {500, 1000, 1500}

Obs(times) == [mjd : times, freq : Freqs]

RECURSIVE StreamsUpTo(_, _)
\* the time-sorted streams of at most n observations over the given times
StreamsUpTo(times, n) ==
    IF n = 0 THEN {<<>>}
    ELSE LET S == StreamsUpTo(times, n - 1)
             ext == {x \in S \X Obs(times) :
                        /\ Len(x[1]) = n - 1
                        /\ n = 1 \/ x[1][n - 1].mjd <= x[2].mjd}
         IN  S \cup {Append(x[1], x[2]) : x \in ext}

Streams(times) == StreamsUpTo(times, MaxObs)

RECURSIVE TwoBandStreamsUpTo(_, _)
\* the time-sorted streams of at most n observations over the given times,
\* every observation strictly below or strictly above the dividing frequency
TwoBandStreamsUpTo(times, n) ==
    IF n = 0 THEN {<<>>}
    ELSE LET S == TwoBandStreamsUpTo(times, n - 1)
             ext == {x \in S \X [mjd : times, freq : Freqs \ {DivideFreq}] :
                        /\ Len(x[1]) = n - 1
                        /\ n = 1 \/ x[1][n - 1].mjd <= x[2].mjd}
         IN  S \cup {Append(x[1], x[2]) : x \in ext}

WindowTimes == 0..MaxTime

LegacyTimes == {50 * k : k \in 0..MaxTick}

MaxDiffs == {150, 250}

\* no slop, the default, and a slop wider than half a rounding step
Offsets == {0, DefaultOffset, 60}

Uncs == {1, 2}

\* six observations, two per epoch, at 0, 10 and 30 days
Scenario1 ==
    <<[mjd |-> 0, freq |-> 500], [mjd |-> 50, freq |-> 1500],
      [mjd |-> 10000, freq |-> 500], [mjd |-> 10050, freq |-> 1500],
      [mjd |-> 30000, freq |-> 500], [mjd |-> 30050, freq |-> 1500]>>

\* a fitter whose model has the bins 1..n with the given values, flags and
\* uncertainties; the covariance of the fit bins has the squared uncertainties
\* on its diagonal and c elsewhere
Fitter(n, value, frozen, unc, hasCov, c) ==
    LET fit == {k \in 1..n : ~ frozen[k]}
    IN  [params |-> [k \in 1..n |->
                       [key |-> k, value |-> value[k], frozen |-> frozen[k],
                        unc |-> unc[k], r1 |-> 100 * k, r2 |-> 100 * k + 50]],
         hasCov |-> hasCov,
         covLabels |-> IF hasCov THEN fit ELSE {},
         cov |-> IF hasCov
                   THEN [a \in fit, b \in fit |-> IF a = b THEN unc[a] * unc[a] ELSE c]
                   ELSE [a \in {}, b \in {} |-> 0]]

\* a fitter whose model lists the bins keys[1], keys[2], .. in that order;
\* values, flags and uncertainties are given by bin number
ListedFitter(keys, value, frozen, unc, hasCov, c) ==
    LET fit == {b \in Range(keys) : ~ frozen[b]}
    IN  [params |-> [k \in DOMAIN keys |->
                       [key |-> keys[k], value |-> value[keys[k]],
                        frozen |-> frozen[keys[k]], unc |-> unc[keys[k]],
                        r1 |-> 100 * keys[k], r2 |-> 100 * keys[k] + 50]],
         hasCov |-> hasCov,
         covLabels |-> IF hasCov THEN fit ELSE {},
         cov |-> IF hasCov
                   THEN [a \in fit, b \in fit |-> IF a = b THEN unc[a] * unc[a] ELSE c]
                   ELSE [a \in {}, b \in {} |-> 0]]

\* the orders in which a model may list bins numbered in 1..MaxBins
Listings ==
    UNION {{o \in [1..n -> 1..MaxBins] : \A a, b \in 1..n : a # b => o[a] # o[b]} :
              n \in 0..MaxBins}

\* dmxstats reads the bins and their boundaries only
StatsFitters ==
    {ListedFitter(o, [b \in 1..MaxBins |-> 1], [b \in 1..MaxBins |-> FALSE],
                  [b \in 1..MaxBins |-> 1], FALSE, 0) : o \in Listings}

\* the boundaries of the bins 1..MaxBins and a time inside each
StatsTimes == UNION {{100 * b, 100 * b + 25, 100 * b + 50} : b \in 1..MaxBins}

Fitters ==
    {Fitter(n, v, f, u, h, c) :
        n \in 0..MaxBins, v \in [1..MaxBins -> 1..MaxVal], f \in [1..MaxBins -> BOOLEAN],
        u \in [1..MaxBins -> Uncs], h \in BOOLEAN, c \in {0, 1}}

\* four bins with the values 1, 2, 3, 4 and no covariance matrix
Scenario3 ==
    Fitter(4, <<1, 2, 3, 4>>, [k \in 1..4 |-> FALSE], [k \in 1..4 |-> 1], FALSE, 0)

NoFitter == Fitter(0, <<>>, <<>>, <<>>, FALSE, 0)

NoFile == [written |-> FALSE, mean |-> Rat(0, 1), mean_err |-> NaN, lines |-> <<>>]

\* no call of dmxparse has come before this one
NoFirst == [ran |-> FALSE, dmx |-> NoDmx, out |-> NoFile, err |-> "none"]

\* the fitters with a covariance matrix, over every order in which the model
\* may list its bins
ListedFitters ==
    {ListedFitter(o, [b \in 1..MaxBins |-> 1], f, u, TRUE, c) :
        o \in Listings, f \in [1..MaxBins -> BOOLEAN],
        u \in [1..MaxBins -> Uncs], c \in {0, 1}}

\* the fitters of two pipelines: bins 1..n without frozen ones, the values
\* v, 2 v, .., n v
PipelineFitters ==
    {Fitter(n, [k \in 1..n |-> v * k], [k \in 1..n |-> FALSE],
            [k \in 1..n |-> 1], h, 0) :
        n \in 1..MaxBins, v \in 1..MaxVal, h \in BOOLEAN}

-----------------------------------------------------------------------------
(* The specification *)

InitLocals ==
    /\ err = "none"
    /\ prevbinR2 = 0
    /\ batches = <<>>
    /\ DMXs = <<>>
    /\ loMJDs = <<>>
    /\ hiMJDs = <<>>
    /\ ii = 0
    /\ good_his = {}
    /\ bad_los = {}
    /\ todo = {}
    /\ saved_los = {}
    /\ bad_his = {}
    /\ mask = <<>>
    /\ comp = <<>>
    /\ loc = NoLoc
    /\ dmx = NoDmx
    /\ dmxout = NoFile
    /\ first = NoFirst
    /\ printed = <<>>

InitWindow ==
    /\ op = "dmx_ranges" /\ pc = "w_init"
    /\ \/ toas \in Streams(WindowTimes) /\ binwidth \in 0..MaxBinwidth
       \/ toas = Scenario1 /\ binwidth = DefaultBinwidth
    /\ max_diff = 0 /\ offset = 0 /\ fitter = NoFitter /\ save = FALSE

InitLegacy ==
    /\ op = "dmx_ranges_old" /\ pc = "o_split"
    /\ toas \in Streams(LegacyTimes)
    /\ max_diff \in MaxDiffs
    /\ offset \in Offsets
    /\ binwidth = 0 /\ fitter = NoFitter /\ save = FALSE

InitParse ==
    /\ op = "dmxparse" /\ pc = "p_start"
    /\ fitter \in Fitters \cup {Scenario3}
    /\ save \in BOOLEAN
    /\ toas = <<>> /\ binwidth = 0 /\ max_diff = 0 /\ offset = 0

Init == InitLocals /\ (InitWindow \/ InitLegacy \/ InitParse)

Next ==
    \/ WindowInit
    \/ WindowStep
    \/ WindowBreak
    \/ WindowFinish
    \/ LegacySplit
    \/ LegacyPair
    \/ LegacyStartRescue
    \/ LegacyRescue
    \/ LegacyFinish
    \/ Validate
    \/ ParseCollect
    \/ ParseCovariance
    \/ ParseFallback
    \/ ParseReturn

Spec == Init /\ [][Next]_vars

\* dmx_ranges alone. The function is sequential code that nothing suspends:
\* whenever a statement can run it does, which is weak fairness of its steps.
NextWindow ==
    \/ WindowInit
    \/ WindowStep
    \/ WindowBreak
    \/ WindowFinish
    \/ Validate

\* WindowStep can run: the loop is at its head and an observation is after the
\* cursor (with binwidth >= 0 the batch then holds at least startMJD)
LoopCanRun ==
    op = "dmx_ranges" /\ pc = "w_loop" /\ \E k \in DOMAIN toas : toas[k].mjd > prevbinR2

\* weak fairness of WindowStep, written out: the iteration is not left
\* forever able to run without running (a step of it is one that forms a
\* batch)
FairLoop ==
    \/ []<>(~ LoopCanRun)
    \/ []<><<pc = "w_loop" /\ batches' # batches>>_vars

\* times that the rounding to one decimal leaves as they are
RoundedTimes == {RoundStep * k : k \in 0..MaxTick}

\* dmx_ranges_old alone, on longer streams of low-band and high-band
\* observations: enough of them for two ranges and a low date to rescue
InitLegacyLong ==
    /\ InitLocals
    /\ op = "dmx_ranges_old" /\ pc = "o_split"
    /\ toas \in TwoBandStreamsUpTo(RoundedTimes, MaxLegacyObs)
    /\ max_diff \in MaxDiffs
    /\ offset = DefaultOffset
    /\ binwidth = 0 /\ fitter = NoFitter /\ save = FALSE

NextLegacy ==
    \/ LegacySplit
    \/ LegacyPair
    \/ LegacyStartRescue
    \/ LegacyRescue
    \/ LegacyFinish
    \/ Validate

SpecLegacy == InitLegacyLong /\ [][NextLegacy]_vars

\* dmxstats alone
InitStats ==
    /\ InitLocals
    /\ op = "dmxstats" /\ pc = "s_start"
    /\ fitter \in StatsFitters
    /\ toas \in StreamsUpTo(StatsTimes, 2)
    /\ save = FALSE /\ binwidth = 0 /\ max_diff = 0 /\ offset = 0

NextStats ==
    \/ StatsStart
    \/ StatsLine
    \/ StatsReturn

SpecStats == InitStats /\ [][NextStats]_vars

\* dmxparse alone on fitters with a covariance matrix whose models list
\* their bins in any order
InitListed ==
    /\ InitLocals
    /\ op = "dmxparse" /\ pc = "p_start"
    /\ fitter \in ListedFitters
    /\ save \in BOOLEAN
    /\ toas = <<>> /\ binwidth = 0 /\ max_diff = 0 /\ offset = 0

NextListed ==
    \/ ParseCollect
    \/ ParseCovariance
    \/ ParseReturn

SpecListed == InitListed /\ [][NextListed]_vars

\* dmxparse called twice on the same fitter
NextAgain ==
    \/ ParseCollect
    \/ ParseCovariance
    \/ ParseFallback
    \/ ParseReturn
    \/ ParseAgain

InitAgain == InitLocals /\ InitParse

SpecAgain == InitAgain /\ [][NextAgain]_vars

\* two pipelines, each with its own fitter, in one working directory; the
\* second calls dmxparse when the first has returned, which is one of the
\* ways two concurrent calls can fall
InitPipelines ==
    /\ InitLocals
    /\ op = "dmxparse" /\ pc = "p_start"
    /\ fitter \in PipelineFitters
    /\ save \in BOOLEAN
    /\ toas = <<>> /\ binwidth = 0 /\ max_diff = 0 /\ offset = 0

\* the call is over and another pipeline calls dmxparse on its own fitter in
\* the same working directory: the file name "dmxparse.out" is fixed
OtherPipeline ==
    /\ op = "dmxparse" /\ pc \in {"done", "raised"}
    /\ ~ first.ran
    /\ first' = [ran |-> TRUE, dmx |-> dmx, out |-> dmxout, err |-> err]
    /\ fitter' \in PipelineFitters
    /\ save' \in BOOLEAN
    /\ pc' = "p_start"
    /\ err' = "none"
    /\ loc' = NoLoc
    /\ dmx' = NoDmx
    /\ UNCHANGED <<op, toas, binwidth, max_diff, offset>>
    /\ UNCHANGED <<dmxout, segVars, printed>>

NextPipelines ==
    \/ ParseCollect
    \/ ParseCovariance
    \/ ParseFallback
    \/ ParseReturn
    \/ OtherPipeline

SpecPipelines == InitPipelines /\ [][NextPipelines]_vars

\* the loop looks at the times only: streams of two frequencies are enough
InitWindowLive ==
    /\ InitLocals
    /\ op = "dmx_ranges" /\ pc = "w_init"
    /\ toas \in TwoBandStreamsUpTo(WindowTimes, MaxObs)
    /\ binwidth \in 0..MaxBinwidth
    /\ max_diff = 0 /\ offset = 0 /\ fitter = NoFitter /\ save = FALSE

LiveWindow ==
    /\ InitWindowLive
    /\ [][NextWindow]_vars
    /\ WF_vars(WindowInit)
    /\ FairLoop
    /\ WF_vars(WindowBreak)
    /\ WF_vars(WindowFinish)
    /\ WF_vars(Validate)

-----------------------------------------------------------------------------
(* Properties *)

Done == pc = "done"

Ended == pc \in {"done", "raised"}

\* the observations that the batches formed so far hold
Batched == UNION {batches[a].idx : a \in DOMAIN batches}

\* C1: in dmx_ranges on a non-empty time-sorted stream the batches of the loop
\* are pairwise disjoint and, once the loop is over, every observation is in
\* exactly one batch; a batch is either accepted as a dmxrange or discarded.
C1_BatchesPartition ==
    (op = "dmx_ranges" /\ Len(toas) > 0) =>
        /\ \A a, b \in DOMAIN batches :
               a # b => batches[a].idx \cap batches[b].idx = {}
        /\ \A a \in DOMAIN batches : batches[a].idx # {}
        /\ Cardinality({a \in DOMAIN batches : batches[a].good}) = Len(DMXs)
        /\ pc \in {"w_mask", "validate", "done"} => Batched = DOMAIN toas

\* a finished run of dmx_ranges with an accepted and a discarded batch
C1_Witness ==
    /\ op = "dmx_ranges" /\ Done
    /\ \E a, b \in DOMAIN batches : batches[a].good /\ ~ batches[b].good

\* C2: in dmx_ranges no observation lies inside the installed range
\* [DMXR1, DMXR2] of two distinct bins.
C2_NoSharedObservation ==
    (op = "dmx_ranges" /\ Done) =>
        \A a, b \in DOMAIN comp :
            a # b =>
                ~ \E i \in DOMAIN toas :
                    /\ comp[a].r1 <= toas[i].mjd /\ toas[i].mjd <= comp[a].r2
                    /\ comp[b].r1 <= toas[i].mjd /\ toas[i].mjd <= comp[b].r2

\* C3: in dmx_ranges_old every range of DMXs holds at least one low-band date
\* and at least one high-band date, at every point of the run: after the
\* walk, during the rescue of the bad low dates and at the return.
C3_BothBands ==
    op = "dmx_ranges_old" =>
        \A k \in DOMAIN DMXs :
            /\ Len(DMXs[k].los) >= 1
            /\ Len(DMXs[k].his) >= 1
            /\ Range(DMXs[k].los) \subseteq Range(loMJDs)
            /\ Range(DMXs[k].his) \subseteq Range(hiMJDs)

\* a finished run of dmx_ranges_old in which a bad low date was rescued
C3_Witness ==
    /\ op = "dmx_ranges_old" /\ Done
    /\ \E k \in DOMAIN DMXs : Len(DMXs[k].los) >= 2

RunsScenario1 ==
    op = "dmx_ranges" /\ toas = Scenario1 /\ binwidth = DefaultBinwidth

\* C4 as stated: scenario 1 yields exactly 3 bins, each about 0.05 day long,
\* and a mask that is true for all six observations.
C4_ThreeBins ==
    (RunsScenario1 /\ Done) =>
        /\ Len(DMXs) = 3
        /\ \A k \in DOMAIN DMXs : DMXs[k].max - DMXs[k].min <= 50 + 2 * Pad
        /\ \A i \in DOMAIN toas : mask[i]

\* C4 as amended: scenario 1 yields exactly 2 bins; the first holds the
\* four observations at 0, 0.05, 10 and 10.05 days (10.052 days long with the
\* pad), the second the two at 30 and 30.05 days (0.052 day long); the mask
\* is true for all six observations.
C4_TwoBins ==
    (RunsScenario1 /\ Done) =>
        /\ Len(DMXs) = 2
        /\ DMXs[1].los = <<0, 10000>> /\ DMXs[1].his = <<50, 10050>>
        /\ DMXs[1].min = 0 - Pad /\ DMXs[1].max = 10050 + Pad
        /\ DMXs[2].los = <<30000>> /\ DMXs[2].his = <<30050>>
        /\ DMXs[2].min = 30000 - Pad /\ DMXs[2].max = 30050 + Pad
        /\ Len(mask) = 6
        /\ \A i \in DOMAIN toas : mask[i]

\* scenario 1 has run to its return
C4_Witness == RunsScenario1 /\ Done /\ Len(comp) = 2

\* the values of the model's bins, in the order of the model
ModelValues == [k \in DOMAIN fitter.params |-> fitter.params[k].value]

\* C5: dmxparse returns as mean_dmx the arithmetic mean of the values of all
\* bins, frozen or fit, and as dmxs[k] the value of bin k minus that mean, so
\* the returned values sum to zero; for the values 1, 2, 3, 4 without a
\* covariance matrix the mean is 2.5 and the values are -1.5, -0.5, 0.5, 1.5.
C5_MeanSubtracted ==
    (op = "dmxparse" /\ Done) =>
        LET n == Len(fitter.params)
            total == SumSeq(ModelValues)
        IN  /\ RatEq(dmx.mean_dmx, Rat(total, n))
            /\ Len(dmx.dmxs) = n
            /\ \A k \in 1..n : RatEq(dmx.dmxs[k], Rat(n * ModelValues[k] - total, n))
            /\ \A k \in 1..n : dmx.dmxs[k].den = n
            /\ SumSeq([k \in 1..n |-> dmx.dmxs[k].num]) = 0
            /\ fitter = Scenario3 =>
                   /\ RatEq(dmx.mean_dmx, Rat(5, 2))
                   /\ \A k \in 1..4 : RatEq(dmx.dmxs[k], Rat(2 * k - 5, 2))

\* dmxparse has returned for the values 1, 2, 3, 4
C5_Witness == op = "dmxparse" /\ Done /\ fitter = Scenario3 /\ dmx.returned

\* the bins of the model that are frozen, and those that were fit
FrozenBins == {k \in DOMAIN fitter.params : fitter.params[k].frozen}

FitBins == DOMAIN fitter.params \ FrozenBins

\* the corrected uncertainty of the fit bin k of the model: the diagonal entry
\* of the transformed covariance that belongs to the label of that bin
OwnCorrected(k) ==
    LET labels == SortedSeq({fitter.params[j].key : j \in FitBins})
        cc == [a \in 1..Len(labels), b \in 1..Len(labels) |->
                 fitter.cov[labels[a], labels[b]]]
        row == CHOOSE a \in 1..Len(labels) : labels[a] = fitter.params[k].key
    IN  Unc(Corrected(cc, Len(labels), row), Len(labels) * Len(labels))

\* C6: dmxparse with a covariance matrix and frozen bins, however many and
\* wherever they are, succeeds and returns in dmx_verrs one entry per bin in
\* the order of the bins: the placeholder exactly at the frozen bins and, at
\* every fit bin, the corrected uncertainty of that bin.  (Stated for the
\* fitters with at least one fit bin, which a covariance matrix needs.)
C6_FrozenRealigned ==
    (op = "dmxparse" /\ fitter.hasCov /\ FrozenBins # {} /\ FitBins # {} /\ Ended) =>
        /\ Done
        /\ Len(dmx.dmx_verrs) = Len(fitter.params)
        /\ \A k \in FrozenBins : dmx.dmx_verrs[k].nan
        /\ \A k \in FitBins : dmx.dmx_verrs[k] = OwnCorrected(k)

\* observation i was assigned to a range: its rounded date is a low date
\* (for a low-band observation) or a high date (high-band) of a range
Assigned(i) ==
    \E k \in DOMAIN DMXs :
        \/ toas[i].freq < DivideFreq /\ Round1(toas[i].mjd) \in Range(DMXs[k].los)
        \/ toas[i].freq > DivideFreq /\ Round1(toas[i].mjd) \in Range(DMXs[k].his)

\* C7: dmx_ranges_old returns a mask that is true for every observation that
\* was assigned to a range, for every offset >= 0.
C7_AssignedMasked ==
    (op = "dmx_ranges_old" /\ Done) =>
        \A i \in DOMAIN toas : Assigned(i) => mask[i]

\* observation i could not be placed: its rounded date is a bad low date
\* that was not saved, or a high date that no range claimed
Unplaced(i) ==
    \/ toas[i].freq < DivideFreq /\ Round1(toas[i].mjd) \in bad_los
    \/ toas[i].freq > DivideFreq /\ Round1(toas[i].mjd) \in bad_his

\* C8: dmx_ranges_old returns a mask that is false for every observation
\* that could not be placed in a range.
C8_UnplacedUnmasked ==
    (op = "dmx_ranges_old" /\ Done) =>
        \A i \in DOMAIN toas : Unplaced(i) => ~ mask[i]

\* C9: dmx_ranges returns a mask that is true exactly for the observations of
\* the accepted batches; the observations of a discarded batch are false.
C9_MaskIffAccepted ==
    (op = "dmx_ranges" /\ Done) =>
        \A i \in DOMAIN toas :
            mask[i] <=> \E a \in DOMAIN batches : batches[a].good /\ i \in batches[a].idx

\* C10: both segmenters, given no observation at all, return without an
\* error of their own (validate() of the component aside), with no range, no
\* range installed and an empty mask.
C10_EmptyStream ==
    (/\ op \in {"dmx_ranges", "dmx_ranges_old"} /\ Len(toas) = 0
     /\ Ended /\ err # "ValidationError") =>
        /\ Done
        /\ err = "none"
        /\ DMXs = <<>> /\ comp = NewComponent /\ mask = <<>>

\* C11: in dmx_ranges a batch is accepted exactly when it holds an observation
\* below the dividing frequency and one at or above it, an observation exactly
\* at the dividing frequency counting as high-band.
C11_AcceptedIffBothBands ==
    op = "dmx_ranges" =>
        \A a \in DOMAIN batches :
            batches[a].good <=>
                /\ \E i \in batches[a].idx : toas[i].freq < DivideFreq
                /\ \E i \in batches[a].idx : toas[i].freq >= DivideFreq

\* the model has n >= 2 bins, all of them fit, with one uncertainty, and the
\* covariance matrix of the fitter is diagonal
SameVariance ==
    /\ fitter.hasCov
    /\ Len(fitter.params) >= 2
    /\ \A k \in DOMAIN fitter.params :
          ~ fitter.params[k].frozen /\ fitter.params[k].unc = fitter.params[1].unc
    /\ \A a, b \in fitter.covLabels : a # b => fitter.cov[a, b] = 0

\* C12: when every bin is fit and the covariance matrix is diagonal with the
\* same variance v on each of the n bins, dmxparse returns for every bin the
\* corrected variance v * (1 - 1/n) = v * (n - 1) / n.
C12_EqualVarianceCorrected ==
    (op = "dmxparse" /\ Done /\ SameVariance) =>
        LET n == Len(fitter.params)
            v == fitter.params[1].unc * fitter.params[1].unc
        IN  /\ Len(dmx.dmx_verrs) = n
            /\ \A k \in 1..n :
                  /\ ~ dmx.dmx_verrs[k].nan
                  /\ RatEq(dmx.dmx_verrs[k].sq, Rat(v * (n - 1), n))

C12_Witness == op = "dmxparse" /\ Done /\ SameVariance /\ Len(fitter.params) = 3

\* the uncertainties of the bins of the model, as the fit left them
ModelErrs == [k \in DOMAIN fitter.params |-> fitter.params[k].unc]

\* the returned dmx_verrs are the uncertainties of the model, entry by entry
RawVErrs ==
    /\ Len(dmx.dmx_verrs) = Len(fitter.params)
    /\ \A k \in DOMAIN fitter.params :
          /\ ~ dmx.dmx_verrs[k].nan
          /\ RatEq(dmx.dmx_verrs[k].sq, Rat(ModelErrs[k] * ModelErrs[k], 1))

\* C13 as stated: without a covariance matrix dmxparse returns the
\* uncertainties of the model as dmx_verrs and their plain mean, the sum of all
\* entries over their number, as avg_dm_err (stated for a model in which at
\* least one bin was fit).
C13_PlainMeanOfAll ==
    (op = "dmxparse" /\ ~ fitter.hasCov /\ FitBins # {} /\ Ended) =>
        LET n == Len(fitter.params)
            total == SumSeq(ModelErrs)
        IN  /\ Done /\ err = "none"
            /\ RawVErrs
            /\ ~ dmx.avg_dm_err.nan
            /\ RatEq(dmx.avg_dm_err.sq, Rat(total * total, n * n))

\* C13, amended: without a covariance matrix dmxparse succeeds and returns the
\* uncertainties of the model as dmx_verrs, entry by entry, and as avg_dm_err
\* the mean of the uncertainties of the bins that were fit (the plain mean of
\* all entries when no bin is frozen, no number when every bin is frozen).
C13_MeanOfFitErrs ==
    (op = "dmxparse" /\ ~ fitter.hasCov /\ Len(fitter.params) > 0 /\ Ended) =>
        LET total == SumFn(ModelErrs, FitBins)
            n == Cardinality(FitBins)
        IN  /\ Done /\ err = "none"
            /\ RawVErrs
            /\ IF n = 0 THEN dmx.avg_dm_err.nan
               ELSE /\ ~ dmx.avg_dm_err.nan
                    /\ RatEq(dmx.avg_dm_err.sq, Rat(total * total, n * n))

C13_Witness ==
    /\ op = "dmxparse" /\ Done /\ ~ fitter.hasCov
    /\ FrozenBins # {} /\ Cardinality(FitBins) = 2
    /\ \E a, b \in FitBins : ModelErrs[a] # ModelErrs[b]

\* C14: dmxparse on a model without any DMX_ parameter raises RuntimeError
\* before anything is computed: no local array is filled, no dictionary is
\* returned and no file is written, whether or not save is set.
C14_NoBinsRuntimeError ==
    (op = "dmxparse" /\ Len(fitter.params) = 0) =>
        /\ pc \in {"p_start", "raised"}
        /\ pc = "raised" => err = "RuntimeError"
        /\ loc = NoLoc
        /\ ~ dmx.returned
        /\ ~ dmxout.written

C14_Witness ==
    /\ op = "dmxparse" /\ Len(fitter.params) = 0 /\ save
    /\ pc = "raised" /\ err = "RuntimeError"

\* a segmenter has installed its ranges in the component
Installed ==
    /\ op \in {"dmx_ranges", "dmx_ranges_old"}
    /\ pc \in {"validate", "done"} \/ err = "ValidationError"

\* the offset that the installer of the running segmenter applies
InstallOffset == IF op = "dmx_ranges_old" THEN offset ELSE 0

\* slot k of the component holds the parameters of the k-th range
SlotHoldsRange(k) ==
    /\ comp[k].value = 0
    /\ ~ comp[k].frozen
    /\ comp[k].ranged
    /\ comp[k].r1 = DMXs[k].min - InstallOffset
    /\ comp[k].r2 = DMXs[k].max + InstallOffset

\* C15 as stated: after the installation of k ranges the component holds
\* exactly one slot per range, numbered 1..k in the order of the ranges, with
\* value 0, not frozen, and the range's min and max (less and plus the offset
\* in dmx_ranges_old) as DMXR1 and DMXR2.
C15_OneSlotPerRange ==
    Installed =>
        /\ Len(comp) = Len(DMXs)
        /\ \A k \in DOMAIN DMXs : SlotHoldsRange(k)

\* C15, amended: the same for k >= 1; when no range was formed the component
\* holds the slot 0001 it was made with, untouched and without a range.
C15_OneSlotPerRangeOrDefault ==
    Installed =>
        IF Len(DMXs) = 0
          THEN comp = NewComponent /\ ~ comp[1].ranged
          ELSE /\ Len(comp) = Len(DMXs)
               /\ \A k \in DOMAIN DMXs : SlotHoldsRange(k)

C15_Witness ==
    /\ op = "dmx_ranges_old" /\ Done /\ offset > 0
    /\ Len(DMXs) = 2 /\ Len(comp) = 2

\* C16: in both segmenters validate() is the last step of the installer: it
\* runs when every range has been installed, nothing is returned before it
\* has run, the return leaves the mask and the component as validate() saw
\* them, and when validate() raises the call ends with that error and
\* returns nothing.
C16_ValidateLast ==
    [][(op \in {"dmx_ranges", "dmx_ranges_old"}) =>
         (/\ (pc = "validate") =>
                (/\ comp = Install(DMXs, InstallOffset)
                 /\ pc' \in {"validate", "done", "raised"})
          /\ (pc # "done" /\ pc' = "done") =>
                (/\ pc = "validate"
                 /\ err' = "none"
                 /\ mask' = mask /\ comp' = comp)
          /\ (err' = "ValidationError") =>
                (/\ pc' = "raised"
                 /\ pc \in {"validate", "raised"}))]_vars

C16_Witness ==
    /\ op \in {"dmx_ranges", "dmx_ranges_old"}
    /\ pc = "raised" /\ err = "ValidationError"
    /\ Len(DMXs) = 2 /\ Len(comp) = 2

\* the dates that the range DMX holds
DatesOf(DMX) == Range(DMX.los \o DMX.his)

\* C17: in dmx_ranges every range has as min and max exactly the least and
\* the greatest date of its batch, without a pad, and these are the values
\* installed as DMXR1 and DMXR2.
C17_ExactExtent ==
    op = "dmx_ranges" =>
        \A k \in DOMAIN DMXs :
            /\ DMXs[k].min = Min(DatesOf(DMXs[k]))
            /\ DMXs[k].max = Max(DatesOf(DMXs[k]))
            /\ Installed =>
                  /\ comp[k].r1 = Min(DatesOf(DMXs[k]))
                  /\ comp[k].r2 = Max(DatesOf(DMXs[k]))

\* C18: in dmx_ranges_old every range, one whose low dates were extended by
\* a rescue included, has min = least date - 0.001 d and max = greatest
\* date + 0.001 d.
C18_PaddedExtent ==
    op = "dmx_ranges_old" =>
        \A k \in DOMAIN DMXs :
            /\ DMXs[k].min = Min(DatesOf(DMXs[k])) - Pad
            /\ DMXs[k].max = Max(DatesOf(DMXs[k])) + Pad

\* C19: in dmx_ranges_old max_diff is the maximum duration of a range: the
\* dates of every range lie within max_diff of each other.
C19_DurationWithinMaxDiff ==
    op = "dmx_ranges_old" =>
        \A k \in DOMAIN DMXs :
            Max(DatesOf(DMXs[k])) - Min(DatesOf(DMXs[k])) <= max_diff

\* the low-band observation i has no high date within max_diff of its date
\* and no range that the rescue could add it to
LoneLow(i) ==
    LET d == Round1(toas[i].mjd)
    IN  /\ toas[i].freq < DivideFreq
        /\ \A h \in Range(hiMJDs) : Abs(d - h) >= max_diff
        /\ \A k \in DOMAIN DMXs :
              ~ (Abs(d - DMXs[k].min) < max_diff /\ Abs(d - DMXs[k].max) < max_diff)

\* C20: in dmx_ranges_old a low-band observation with no high-band
\* observation within max_diff and no range able to rescue it is in no range,
\* stays a bad low date, and has a false mask entry.
C20_LoneLowDropped ==
    (op = "dmx_ranges_old" /\ Done) =>
        \A i \in DOMAIN toas :
            LoneLow(i) =>
                /\ \A k \in DOMAIN DMXs : Round1(toas[i].mjd) \notin Range(DMXs[k].los)
                /\ Round1(toas[i].mjd) \in bad_los
                /\ ~ mask[i]

\* the dates of the observations of batch a
BatchDates(a) == {toas[i].mjd : i \in batches[a].idx}

\* some observation is still strictly after the cursor
Remaining == \E k \in DOMAIN toas : toas[k].mjd > prevbinR2

\* one step of the while loop of dmx_ranges: an iteration forms a non-empty
\* batch strictly after the cursor and moves the cursor, strictly forward, to
\* the greatest date of that batch; the loop is left only when, and as soon
\* as, no observation is after the cursor
LoopStep ==
    (op = "dmx_ranges" /\ pc = "w_loop") =>
        (/\ (batches' # batches) =>
               (/\ Remaining
                /\ pc' = "w_loop"
                /\ Len(batches') = Len(batches) + 1
                /\ batches'[Len(batches')].idx # {}
                /\ \A i \in batches'[Len(batches')].idx : toas[i].mjd > prevbinR2
                /\ prevbinR2' = Max({toas[i].mjd : i \in batches'[Len(batches')].idx})
                /\ prevbinR2' > prevbinR2)
         /\ (pc' # "w_loop") => (~ Remaining /\ prevbinR2' = prevbinR2)
         /\ (pc' = "w_loop" /\ prevbinR2' = prevbinR2) => (batches' = batches)
         /\ (~ Remaining) => (batches' = batches))

\* C27: in dmx_ranges the cursor strictly increases on every iteration of the
\* loop (it becomes the greatest date of a non-empty batch that lies strictly
\* after it), the loop is left exactly when no observation is strictly after
\* the cursor, and for every non-empty stream and binwidth >= 0 it is left.
C27_LoopTerminates ==
    /\ [][LoopStep]_vars
    /\ (op = "dmx_ranges" /\ pc = "w_loop") ~> (op = "dmx_ranges" /\ pc = "w_mask" /\ ~ Remaining)

C27_Witness ==
    /\ op = "dmx_ranges" /\ pc = "w_mask" /\ ~ Remaining
    /\ Len(batches) = 2
    /\ \E a \in DOMAIN batches : Cardinality(BatchDates(a)) = 2

\* C30: in dmx_ranges on a time-sorted stream the dates of every batch, and
\* so of every range, span at most binwidth.
C30_BatchWithinBinwidth ==
    op = "dmx_ranges" =>
        /\ \A a \in DOMAIN batches :
              Max(BatchDates(a)) - Min(BatchDates(a)) <= binwidth
        /\ \A k \in DOMAIN DMXs :
              Max(DatesOf(DMXs[k])) - Min(DatesOf(DMXs[k])) <= binwidth

C30_Witness ==
    /\ op = "dmx_ranges" /\ Done /\ binwidth >= 1
    /\ \E a \in DOMAIN batches :
          /\ batches[a].good
          /\ Max(BatchDates(a)) - Min(BatchDates(a)) = binwidth
    /\ \E k \in DOMAIN DMXs : Max(DatesOf(DMXs[k])) - Min(DatesOf(DMXs[k])) = binwidth


(* dmx_ranges_old: the walk over the low dates and the rescue of the ones *)
(* left without a range                                                   *)

Legacy == op = "dmx_ranges_old"

\* the place of the first low date of range k in loMJDs
LoIndex(k) == CHOOSE i \in DOMAIN loMJDs : loMJDs[i] = DMXs[k].los[1]

\* the high date h is as far from one low date as from the next one
Equidistant(h) ==
    \E i \in 1..(Len(loMJDs) - 1) :
        Abs(h - loMJDs[i]) = Abs(h - loMJDs[i + 1])

\* C23: a high date is in the his of at most one range; it is there only when
\* it is less than max_diff away from the low date of the range and strictly
\* closer to it than to the low date before and to the low date after; a high
\* date as far from one low date as from the next is in the his of neither.
C23_StrictlyNearestLow ==
    Legacy =>
        /\ \A k \in DOMAIN DMXs : \A h \in Range(DMXs[k].his) :
             LET lo == DMXs[k].los[1]
                 i == LoIndex(k)
             IN  /\ Abs(h - lo) < max_diff
                 /\ i > 1 => Abs(h - lo) < Abs(h - loMJDs[i - 1])
                 /\ i < Len(loMJDs) => Abs(h - lo) < Abs(h - loMJDs[i + 1])
        /\ \A k, j \in DOMAIN DMXs :
             k # j => Range(DMXs[k].his) \cap Range(DMXs[j].his) = {}
        /\ \A i \in 1..(Len(loMJDs) - 1) : \A h \in Range(hiMJDs) :
             Abs(h - loMJDs[i]) = Abs(h - loMJDs[i + 1]) =>
                 \A k \in DOMAIN DMXs :
                     DMXs[k].los[1] \in {loMJDs[i], loMJDs[i + 1]} =>
                         h \notin Range(DMXs[k].his)

\* the walk made a range, and a high date within max_diff of two low dates
\* and as far from the one as from the other was left unclaimed
C23_Witness ==
    /\ Legacy /\ Done
    /\ Len(DMXs) >= 1
    /\ \E h \in bad_his :
         /\ Equidistant(h)
         /\ \E i \in 1..(Len(loMJDs) - 1) :
              /\ Abs(h - loMJDs[i]) = Abs(h - loMJDs[i + 1])
              /\ Abs(h - loMJDs[i]) < max_diff

\* the distance the rescue compares: the smaller of the distances to the ends
EndDistance(b, k) == Min({Abs(b - DMXs[k].min), Abs(b - DMXs[k].max)})

\* the ranges the orphan b may join: both ends less than max_diff away
EligibleNow(b) ==
    {k \in DOMAIN DMXs :
        Abs(b - DMXs[k].min) < max_diff /\ Abs(b - DMXs[k].max) < max_diff}

\* one visit of the rescue loop, stated from the ranges as they are then
RescueStep ==
    (Legacy /\ pc = "o_rescue" /\ todo' # todo) =>
        (\E b \in todo :
            /\ todo' = todo \ {b}
            /\ Len(DMXs') = Len(DMXs)
            /\ IF EligibleNow(b) = {}
                 THEN DMXs' = DMXs /\ saved_los' = saved_los
                 ELSE LET nearest == {k \in EligibleNow(b) :
                                         \A j \in EligibleNow(b) :
                                             EndDistance(b, k) <= EndDistance(b, j)}
                          ind == Min(nearest)
                      IN  /\ saved_los' = saved_los \cup {b}
                          /\ DMXs'[ind].los = Append(DMXs[ind].los, b)
                          /\ DMXs'[ind].his = DMXs[ind].his
                          /\ \A k \in DOMAIN DMXs : k # ind => DMXs'[k] = DMXs[k])

\* the ranges that hold the low date b
HoldersOf(b) == {k \in DOMAIN DMXs : b \in Range(DMXs[k].los)}

RescuedOnce ==
    Legacy =>
        \A b \in bad_los \cup saved_los :
            Cardinality(HoldersOf(b)) = IF b \in saved_los THEN 1 ELSE 0

\* C24: an orphan low date is appended to a range only when both ends of the
\* range, as they are at that moment, are less than max_diff away; the range
\* chosen is a nearest one among those, the first of them in the order of the
\* ranges; an orphan no range may take is appended to none, and no orphan is
\* in more than one range.
C24_RescueNearestEligible == [][RescueStep]_vars /\ []RescuedOnce

\* the range k as the walk left it, before any rescue
BeforeRescue(k) == dmxrange(<<DMXs[k].los[1]>>, DMXs[k].his)

\* an orphan two ranges could take went to the second, the nearer one
C24_Witness ==
    /\ Legacy /\ Done
    /\ Len(DMXs) = 2
    /\ \E b \in saved_los :
         /\ HoldersOf(b) = {2}
         /\ \A k \in {1, 2} :
              /\ Abs(b - BeforeRescue(k).min) < max_diff
              /\ Abs(b - BeforeRescue(k).max) < max_diff
         /\ Min({Abs(b - BeforeRescue(2).min), Abs(b - BeforeRescue(2).max)})
              < Min({Abs(b - BeforeRescue(1).min), Abs(b - BeforeRescue(1).max)})

\* every order in which the dates of S may be visited
Orders(S) ==
    {o \in [1..Cardinality(S) -> S] : \A a, b \in DOMAIN o : a # b => o[a] # o[b]}

\* a range with one more low date and the extent of all its dates
Joined(range, b) ==
    LET los == Append(range.los, b)
    IN  [los |-> los, his |-> range.his,
         min |-> Min(Range(los) \cup Range(range.his)),
         max |-> Max(Range(los) \cup Range(range.his))]

RECURSIVE RescueInOrder(_, _, _, _)
\* the ranges and the saved dates after visiting o[n], o[n + 1], .. in turn
RescueInOrder(o, n, ranges, saved) ==
    IF n > Len(o) THEN [ranges |-> ranges, saved |-> saved]
    ELSE LET b == o[n]
             el == {k \in DOMAIN ranges :
                       /\ Abs(b - ranges[k].min) < max_diff
                       /\ Abs(b - ranges[k].max) < max_diff}
             d(k) == Min({Abs(b - ranges[k].min), Abs(b - ranges[k].max)})
         IN  IF el = {} THEN RescueInOrder(o, n + 1, ranges, saved)
             ELSE LET ind == Min({k \in el : \A j \in el : d(k) <= d(j)})
                  IN  RescueInOrder(o, n + 1,
                                    [ranges EXCEPT ![ind] = Joined(@, b)],
                                    saved \cup {b})

\* what the rescue gives when it visits the orphans in the order o
OutcomeOf(o) ==
    RescueInOrder(o, 1, [k \in DOMAIN DMXs |-> BeforeRescue(k)], {})

Orphans == bad_los \cup saved_los

\* C25: the outcome of the rescue is the outcome of one order of visiting the
\* orphans, and the order matters: there are inputs on which two orders give
\* different ranges and different sets of unsaved orphans (C25_Witness).
C25_OutcomeOfSomeOrder ==
    (Legacy /\ pc \in {"validate", "done"}) =>
        \E o \in Orders(Orphans) :
            /\ OutcomeOf(o).ranges = DMXs
            /\ OutcomeOf(o).saved = saved_los

\* a finished call whose ranges and unsaved orphans another order of the
\* same orphans would have made different
C25_Witness ==
    /\ Legacy /\ Done
    /\ \E o1, o2 \in Orders(Orphans) :
         /\ OutcomeOf(o1).ranges = DMXs
         /\ OutcomeOf(o1).saved = saved_los
         /\ OutcomeOf(o2).ranges # DMXs
         /\ Orphans \ OutcomeOf(o2).saved # bad_los

\* C26: the ranges are in ascending order of time and do not overlap before
\* the offset is applied: each range starts no earlier than the one before
\* it ends, also after the rescue has widened ranges.
C26_AscendingDisjoint ==
    Legacy =>
        \A k \in 1..(Len(DMXs) - 1) :
            /\ DMXs[k].los[1] < DMXs[k + 1].los[1]
            /\ DMXs[k + 1].min >= DMXs[k].max

\* two ranges, one of them widened by a rescued low date
C26_Witness ==
    /\ Legacy /\ Done
    /\ Len(DMXs) >= 2
    /\ saved_los # {}
    /\ \E k \in DOMAIN DMXs : DMXs[k] # BeforeRescue(k)


(* dmxstats *)

\* the bin numbers of the model, ascending
BinNumbers(f) == SortedSeq({f.params[k].key : k \in DOMAIN f.params})

\* the observations strictly between the boundaries of bin i
StrictlyInside(i) ==
    {k \in DOMAIN toas : \E q \in DOMAIN fitter.params :
        /\ fitter.params[q].key = i
        /\ fitter.params[q].r1 < toas[k].mjd
        /\ toas[k].mjd < fitter.params[q].r2}

\* C28: dmxstats prints one line for each bin of the model, in the order of
\* the bin numbers, also when the numbers are not 1, 2, 3, ..; each line
\* counts the observations strictly between the boundaries of its bin.
C28_OneLinePerBin ==
    (op = "dmxstats" /\ Done) =>
        /\ Len(printed) = Len(BinNumbers(fitter))
        /\ \A n \in DOMAIN printed :
             /\ printed[n].bin = BinNumbers(fitter)[n]
             /\ printed[n].ntoas = Cardinality(StrictlyInside(printed[n].bin))


(* dmxparse: the order of the bins, a second call, another pipeline *)

\* the place of the bin b in the ascending sequence labels
PlaceIn(labels, b) == CHOOSE i \in DOMAIN labels : labels[i] = b

\* the corrected variance of the bin named b: its diagonal entry of the
\* transformed covariance of the fit bins
VarianceOfBin(b) ==
    LET labels == SortedSeq(fitter.covLabels)
        n == Len(labels)
    IN  Unc(Corrected(GetLabelMatrix(fitter, labels), n, PlaceIn(labels, b)), n * n)

NoneFrozen == \A k \in DOMAIN fitter.params : ~ fitter.params[k].frozen

\* C29: with a covariance matrix, the corrected uncertainty at every place k
\* of the output is the one of the parameter named bins[k], in whatever order
\* the model lists its bins.
C29_VErrOfNamedBin ==
    (op = "dmxparse" /\ Done /\ fitter.hasCov /\ NoneFrozen) =>
        \A k \in DOMAIN dmx.bins : dmx.dmx_verrs[k] = VarianceOfBin(dmx.bins[k])

\* the second call has ended
SecondOver == op = "dmxparse" /\ first.ran /\ pc \in {"done", "raised"}

C22_ReportOfOwnFit ==
    (SecondOver /\ first.out.written) => dmxout = first.out

=============================================================================
